---- MODULE Spec2Model ----
(***************************************************************************)
(* Search-O-Bar: the retrieval-augmented chat backend of src/app.py with   *)
(* the language-model adapter of src/summarizer.py and the search shim of  *)
(* src/search.py.                                                          *)
(*                                                                         *)
(* Text is modelled by TLA+ strings, character by character (Len, SubSeq   *)
(* and \o on strings), so that strip, lower, replace, startswith, the      *)
(* substring test and the regular expressions of the reference resolver    *)
(* are computed as Python computes them on ASCII text.                     *)
(* Python's None is the empty tuple <<>> where the other values are        *)
(* tuples, and the id 0 where the other values are session ids.            *)
(***************************************************************************)
EXTENDS Integers, Sequences, FiniteSets, TLC

\* SESSIONS and SOURCES are the two stores of app.py, keyed by session id (ids are 1, 2, ...
\* in the order of creation; an id enters SESSIONS first and SOURCES in a later step of the
\* request that creates the session).  worker[w] is the request thread w.  nreq counts the
\* requests admitted.  origin[id][i] is the number of the request that appended entry i of
\* SESSIONS[id] (0 for the four entries written at creation); it is read by no handler.
\* unit is the argument and the result of one call of a function of app.py on its own
\* (specification SpecUnit); the server does not touch it.
VARIABLES SESSIONS, SOURCES, origin, worker, nreq, unit

vars == <<SESSIONS, SOURCES, origin, worker, nreq, unit>>

(***************************************************************************)
(* Characters and strings (Python str methods used by the program)         *)
(***************************************************************************)

\* the least element of a non-empty set of integers
Min(S) == CHOOSE m \in S : \A n \in S : m <= n

\* s[i] for a 1-based position i
Ch(s, i) == SubSeq(s, i, i)

\* s[i:] for a 1-based position i
From(s, i) == SubSeq(s, i, Len(s))

\* the ASCII characters Python's str.strip(), str.split() and the regex class \s treat as
\* white space: space, \t, \n, \r, \f, and the control characters chr(11) (\v) and
\* chr(28)..chr(31) (the file, group, record and unit separators), written here as they are
Whitespace == {" ", "\t", "\n", "\r", "\f", "", "", "", "", ""}

DigitChars == "0123456789"

LowerChars == "abcdefghijklmnopqrstuvwxyz"

UpperChars == "ABCDEFGHIJKLMNOPQRSTUVWXYZ"

Digits == {Ch(DigitChars, i) : i \in 1..Len(DigitChars)}

\* the characters of the regex class \w: letters, digits and the underscore
WordChars ==
    Digits \cup {"_"} \cup {Ch(LowerChars, i) : i \in 1..Len(LowerChars)}
           \cup {Ch(UpperChars, i) : i \in 1..Len(UpperChars)}

\* the lower-case letter of every upper-case letter
ToLower ==
    [c \in {Ch(UpperChars, i) : i \in 1..Len(UpperChars)} |->
        Ch(LowerChars, CHOOSE i \in 1..Len(UpperChars) : Ch(UpperChars, i) = c)]

\* the value of every digit character
DigitValue == [c \in Digits |-> (CHOOSE i \in 1..Len(DigitChars) : Ch(DigitChars, i) = c) - 1]

\* ch.isdigit()
IsDigitCh(c) == c \in Digits

IsWordCh(c) == c \in WordChars

LowerCh(c) == IF c \in DOMAIN ToLower THEN ToLower[c] ELSE c

RECURSIVE Lower(_)
\* str.lower(): every upper-case letter replaced, left to right
Lower(s) ==
    LET upper == {i \in 1..Len(s) : Ch(s, i) \in DOMAIN ToLower}
    IN  IF upper = {} THEN s
        ELSE SubSeq(s, 1, Min(upper) - 1) \o LowerCh(Ch(s, Min(upper)))
                 \o Lower(From(s, Min(upper) + 1))

RECURSIVE LStrip(_)
LStrip(s) == IF s # "" /\ Ch(s, 1) \in Whitespace THEN LStrip(From(s, 2)) ELSE s

RECURSIVE RStrip(_)
RStrip(s) ==
    IF s # "" /\ Ch(s, Len(s)) \in Whitespace THEN RStrip(SubSeq(s, 1, Len(s) - 1)) ELSE s

\* str.strip()
Strip(s) == RStrip(LStrip(s))

\* s[:n]
Prefix(s, n) == IF Len(s) <= n THEN s ELSE SubSeq(s, 1, n)

\* text[i:].startswith(lit) for a 1-based position i
MatchAt(s, i, lit) == i + Len(lit) - 1 <= Len(s) /\ SubSeq(s, i, i + Len(lit) - 1) = lit

\* s.startswith(prefix)
StartsWith(s, prefix) == MatchAt(s, 1, prefix)

\* sub in s
Contains(s, sub) == \E i \in 1..(Len(s) + 1) : MatchAt(s, i, sub)

RECURSIVE Replace(_, _, _)
\* s.replace(old, new) for a non-empty old: every non-overlapping occurrence, left to right
Replace(s, old, new) ==
    LET hits == {i \in 1..Len(s) : MatchAt(s, i, old)}
    IN  IF hits = {} THEN s
        ELSE SubSeq(s, 1, Min(hits) - 1) \o new
                 \o Replace(From(s, Min(hits) + Len(old)), old, new)

RECURSIVE SplitCount(_)
\* len(s.split()): the number of maximal runs of non-white-space characters
SplitCount(s) ==
    IF s = "" THEN 0
    ELSE IF Ch(s, 1) \in Whitespace THEN SplitCount(From(s, 2))
    ELSE IF Len(s) = 1 \/ Ch(s, 2) \in Whitespace THEN 1 + SplitCount(From(s, 2))
    ELSE SplitCount(From(s, 2))

RECURSIVE SkipWs(_, _)
\* the first position >= i of s that holds no white space (Len(s) + 1 if none): the regex \s*
SkipWs(s, i) == IF i <= Len(s) /\ Ch(s, i) \in Whitespace THEN SkipWs(s, i + 1) ELSE i

\* the first position >= i of s that holds no digit: the greedy regex \d*
SkipDigits(s, i) ==
    IF i > Len(s) THEN i
    ELSE Min({j \in i..(Len(s) + 1) : j > Len(s) \/ ~IsDigitCh(Ch(s, j))})

\* the first position >= i of s that holds no word character: the greedy regex \w*
SkipWord(s, i) ==
    IF i > Len(s) THEN i
    ELSE Min({j \in i..(Len(s) + 1) : j > Len(s) \/ ~IsWordCh(Ch(s, j))})

\* the regex assertion \b before position i: exactly one side is a word character
WordBoundary(s, i) ==
    (i > 1 /\ IsWordCh(Ch(s, i - 1))) # (i <= Len(s) /\ IsWordCh(Ch(s, i)))

\* g.isdigit(): non-empty and all digits
IsDigitStr(g) == g # "" /\ \A i \in 1..Len(g) : IsDigitCh(Ch(g, i))

\* the longest digit string int() converts (sys.int_max_str_digits, 4300 unless the
\* interpreter is configured otherwise)
MaxStrDigits == 4300

\* int() raised ValueError: in the place of the number, which is never negative
ValueError == -1

RECURSIVE DecimalValue(_)
\* the number a string of digits denotes
DecimalValue(g) ==
    IF g = "" THEN 0
    ELSE 10 * DecimalValue(SubSeq(g, 1, Len(g) - 1)) + DigitValue[Ch(g, Len(g))]

\* int(g) for a string of digits: the number, or ValueError for a string of more than
\* MaxStrDigits digits
ParseInt(g) == IF Len(g) > MaxStrDigits THEN ValueError ELSE DecimalValue(g)

\* Python's None among tuples
None == <<>>

\* a detector left by the ValueError of int(), in the place of its result
Raises == <<ValueError>>

(***************************************************************************)
(* Query classifier (src/app.py, is_simple_logical_query)                  *)
(***************************************************************************)

arithmetic_keywords == {"+", "-", "*", "/", "x", "what is", "calculate", "solve"}

\* the word-count limit of the bypass: fewer than 7 white-space separated tokens
BypassTokenLimit == 7

is_simple_logical_query(query) ==
    LET normalized == Strip(Lower(query))
        has_op == \E op \in arithmetic_keywords : Contains(normalized, op)
        has_num == \E i \in 1..Len(normalized) : IsDigitCh(Ch(normalized, i))
    IN  has_op /\ has_num /\ SplitCount(normalized) < BypassTokenLimit

(***************************************************************************)
(* Reference resolver (src/app.py, detect_link_index and detect_two_links) *)
(***************************************************************************)

\* the keys of ORDINAL_TO_INDEX in the dict's insertion order
OrdinalWords ==
    << "first", "1st", "second", "2nd", "third", "3rd", "fourth", "4th", "fifth", "5th",
       "sixth", "6th", "seventh", "7th", "eighth", "8th", "ninth", "9th", "tenth", "10th" >>

\* ORDINAL_TO_INDEX[OrdinalWords[k]]
OrdinalValue(k) == (k + 1) \div 2

InOrdinalTable(g) == \E k \in 1..Len(OrdinalWords) : OrdinalWords[k] = g

ORDINAL_TO_INDEX(g) == OrdinalValue(CHOOSE k \in 1..Len(OrdinalWords) : OrdinalWords[k] = g)

\* (?:summarize|summary|details|more\s+details|explain|about) at position p:
\* the position after the verb phrase, 0 if it does not match there
VerbEnd(s, p) ==
    IF MatchAt(s, p, "summarize") THEN p + 9
    ELSE IF MatchAt(s, p, "summary") THEN p + 7
    ELSE IF MatchAt(s, p, "details") THEN p + 7
    ELSE IF /\ MatchAt(s, p, "more")
            /\ SkipWs(s, p + 4) > p + 4
            /\ MatchAt(s, SkipWs(s, p + 4), "details") THEN SkipWs(s, p + 4) + 7
    ELSE IF MatchAt(s, p, "explain") THEN p + 7
    ELSE IF MatchAt(s, p, "about") THEN p + 5
    ELSE 0

\* LINK_PATTERNS[0] matched at position p: <<group 1>>, or None
\*   (?:verb)\s+(?:link\s*)?#?(\d+)
LinkPattern1At(s, p) ==
    LET e == VerbEnd(s, p)
        a == SkipWs(s, e)
        b == IF MatchAt(s, a, "link") THEN SkipWs(s, a + 4) ELSE a
        c == IF MatchAt(s, b, "#") THEN b + 1 ELSE b
        d == SkipDigits(s, c)
    IN  IF e # 0 /\ a > e /\ d > c THEN <<SubSeq(s, c, d - 1)>> ELSE None

\* LINK_PATTERNS[1] matched at position p
\*   (?:verb)\s+the\s+(\w+)\s+(?:link|one)
LinkPattern2At(s, p) ==
    LET e == VerbEnd(s, p)
        a == SkipWs(s, e)
        b == SkipWs(s, a + 3)
        c == SkipWord(s, b)
        d == SkipWs(s, c)
    IN  IF /\ e # 0 /\ a > e
           /\ MatchAt(s, a, "the") /\ b > a + 3
           /\ c > b /\ d > c
           /\ (MatchAt(s, d, "link") \/ MatchAt(s, d, "one"))
        THEN <<SubSeq(s, b, c - 1)>> ELSE None

\* LINK_PATTERNS[2] matched at position p
\*   (?:link|#)\s*(\d+)
LinkPattern3At(s, p) ==
    LET a == IF MatchAt(s, p, "link") THEN p + 4 ELSE IF MatchAt(s, p, "#") THEN p + 1 ELSE 0
        b == SkipWs(s, a)
        c == SkipDigits(s, b)
    IN  IF a # 0 /\ c > b THEN <<SubSeq(s, b, c - 1)>> ELSE None

\* LINK_PATTERNS[3] matched at position p
\*   \b(\w+)\s+link\b
LinkPattern4At(s, p) ==
    LET c == SkipWord(s, p)
        d == SkipWs(s, c)
    IN  IF /\ WordBoundary(s, p) /\ c > p /\ d > c
           /\ MatchAt(s, d, "link") /\ WordBoundary(s, d + 4)
        THEN <<SubSeq(s, p, c - 1)>> ELSE None

LinkPatternAt(k, s, p) ==
    CASE k = 1 -> LinkPattern1At(s, p)
      [] k = 2 -> LinkPattern2At(s, p)
      [] k = 3 -> LinkPattern3At(s, p)
      [] k = 4 -> LinkPattern4At(s, p)

NumLinkPatterns == 4

\* re.search(LINK_PATTERNS[k-1], s): group 1 of the leftmost match as <<g>>, or None
LinkPatternSearch(k, s) ==
    LET hits == {p \in 1..Len(s) : LinkPatternAt(k, s, p) # None}
    IN  IF hits = {} THEN None ELSE LinkPatternAt(k, s, Min(hits))

\* re.search(rf"\b{word}\s+(?:link|one)\b", s)
OrdinalPhraseIn(word, s) ==
    \E p \in 1..Len(s) :
        LET d == SkipWs(s, p + Len(word))
        IN  /\ WordBoundary(s, p)
            /\ MatchAt(s, p, word)
            /\ d > p + Len(word)
            /\ \/ MatchAt(s, d, "link") /\ WordBoundary(s, d + 4)
               \/ MatchAt(s, d, "one") /\ WordBoundary(s, d + 3)

\* the second loop of detect_link_index: the first ordinal word (in table order)
\* directly followed by "link" or "one"
OrdinalFallback(text) ==
    LET hits == {k \in 1..Len(OrdinalWords) : OrdinalPhraseIn(OrdinalWords[k], text)}
    IN  IF hits = {} THEN None ELSE <<OrdinalValue(Min(hits))>>

\* the group of a matched pattern is a digit string or a key of ORDINAL_TO_INDEX
Recognized(g) == IsDigitStr(g) \/ InOrdinalTable(g)

\* what detect_link_index returns for a recognized group g
GroupIndex(g) ==
    IF IsDigitStr(g)
    THEN (IF ParseInt(g) = ValueError THEN Raises
          ELSE IF ParseInt(g) >= 1 THEN <<ParseInt(g)>> ELSE None)
    ELSE <<ORDINAL_TO_INDEX(g)>>

\* a loop that stops at the first pattern that matches, whatever its group holds
LinkPatternLoop_FirstMatchStops(k, text) ==
    LET matching == {j \in k..NumLinkPatterns : LinkPatternSearch(j, text) # None}
        g == LinkPatternSearch(Min(matching), text)[1]
    IN  IF matching = {} THEN OrdinalFallback(text)
        ELSE IF Recognized(g) THEN GroupIndex(g)
        ELSE None

RECURSIVE LinkPatternLoop(_, _)
\* the first loop of detect_link_index from pattern k on: a matched pattern whose group is
\* a digit string or an ordinal word returns (or int() raises on the digit string); one
\* whose group is neither is passed over
LinkPatternLoop(k, text) ==
    IF k > NumLinkPatterns THEN OrdinalFallback(text)
    ELSE LET m == LinkPatternSearch(k, text)
         IN  IF m # None /\ IsDigitStr(m[1])
             THEN (IF ParseInt(m[1]) = ValueError THEN Raises
                   ELSE IF ParseInt(m[1]) >= 1 THEN <<ParseInt(m[1])>> ELSE None)
             ELSE IF m # None /\ InOrdinalTable(m[1])
             THEN <<ORDINAL_TO_INDEX(m[1])>>
             ELSE LinkPatternLoop(k + 1, text)

\* detect_link_index(user_text): <<idx>>, None, or Raises
detect_link_index(user_text) ==
    IF user_text = "" THEN None ELSE LinkPatternLoop(1, Strip(Lower(user_text)))

RECURSIVE NormalizeOrdinals(_, _)
\* text.replace(word, str(num)) for every entry of ORDINAL_TO_INDEX from entry k on
NormalizeOrdinals(k, text) ==
    IF k > Len(OrdinalWords) THEN text
    ELSE NormalizeOrdinals(k + 1, Replace(text, OrdinalWords[k], ToString(OrdinalValue(k))))

\* (\d+)\s*(?:and|&|,|vs|versus)\s*(\d+) matched at position p: <<group 1, group 2>>, or None
TwoNumbersAt(s, p) ==
    LET a == SkipDigits(s, p)
        b == SkipWs(s, a)
        c == IF MatchAt(s, b, "and") THEN b + 3
             ELSE IF MatchAt(s, b, "&") THEN b + 1
             ELSE IF MatchAt(s, b, ",") THEN b + 1
             ELSE IF MatchAt(s, b, "vs") THEN b + 2
             ELSE IF MatchAt(s, b, "versus") THEN b + 6
             ELSE 0
        d == SkipWs(s, c)
        e == SkipDigits(s, d)
    IN  IF a > p /\ c # 0 /\ e > d THEN <<SubSeq(s, p, a - 1), SubSeq(s, d, e - 1)>> ELSE None

\* a detector that returns whatever two numbers it finds
detect_two_links_Unchecked(user_text) ==
    IF user_text = "" THEN None
    ELSE LET text == NormalizeOrdinals(1, Strip(Lower(user_text)))
             hits == {p \in 1..Len(text) : TwoNumbersAt(text, p) # None}
             m == TwoNumbersAt(text, Min(hits))
         IN  IF hits = {} THEN None
             ELSE IF ParseInt(m[1]) = ValueError \/ ParseInt(m[2]) = ValueError THEN Raises
             ELSE <<ParseInt(m[1]), ParseInt(m[2])>>

\* detect_two_links(user_text): <<idx1, idx2>>, None, or Raises
detect_two_links(user_text) ==
    IF user_text = "" THEN None
    ELSE LET text == NormalizeOrdinals(1, Strip(Lower(user_text)))
             hits == {p \in 1..Len(text) : TwoNumbersAt(text, p) # None}
             m == TwoNumbersAt(text, Min(hits))
         IN  IF hits = {} THEN None
             ELSE IF ParseInt(m[1]) = ValueError \/ ParseInt(m[2]) = ValueError THEN Raises
             ELSE IF ParseInt(m[1]) >= 1 /\ ParseInt(m[2]) >= 1
             THEN <<ParseInt(m[1]), ParseInt(m[2])>>
             ELSE None

(***************************************************************************)
(* Collaborators.  search, article extraction and the language model are   *)
(* outside the program: each call's outcome is an input drawn from a small *)
(* set.  An outcome is [ok, text]: text delivered (ok), or the call raised *)
(* or timed out with text as the exception's message (~ok).                *)
(***************************************************************************)

RAG_FAILURE_CODE == "RAG_CONTEXT_INSUFFICIENT"

Delivered(text) == [ok |-> TRUE, text |-> text]

Raised(text) == [ok |-> FALSE, text |-> text]

\* what the Ollama server may do on one POST /api/chat
LmOutcomes ==
    { Raised("timed out"),
      Delivered(" Both report\nnew limits [1]. "),
      Delivered("RAG_CONTEXT_INSUFFICIENT."),
      Delivered("RAG_CONTEXT_INSUFFICIENT"),
      Delivered("ERROR: model overloaded") }

RECURSIVE Doubled(_, _)
\* s repeated until it has at least n characters
Doubled(s, n) == IF Len(s) >= n THEN s ELSE Doubled(s \o s, n)

\* the text of a page longer than the content cap of a source
LongArticle == "Long  read\n" \o Doubled("0123456789", 6000)

\* what the article extraction may do on one url
PageOutcomes ==
    { Raised("unreachable"), Delivered("Full  text\n of the page "), Delivered(LongArticle) }

\* the two results web_search returns when no key is configured (search.py, 15-19)
MockResults ==
    << [title |-> "Mock Result 1", url |-> "https://example.com/1",
        snippet |-> "Mock snippet from mock search results."],
       [title |-> "Mock Result 2", url |-> "https://example.com/2",
        snippet |-> "Another mock snippet from mock search results."] >>

\* what web_search may return: nothing (an error of the service), the two mock results, or,
\* with a key, three organic results, the third with the empty string as its snippet
SearchOutcomes ==
    { <<>>,
      MockResults,
      MockResults \o
          <<[title |-> "Result 3", url |-> "https://example.com/3", snippet |-> ""]>> }

Urls == {"https://example.com/1", "https://example.com/2", "https://example.com/3"}

\* a number of one digit more than int() converts
LongNumber == SubSeq(Doubled("1", MaxStrDigits + 1), 1, MaxStrDigits + 1)

\* the query field of POST /api/ask (two of them are white space only, one of these made of
\* chr(11) and chr(28))
Queries == {"", " ", "2+2", "chip export news "}

\* the query field of POST /api/chat
FollowUps ==
    {"", " ", "hello", "compare link 1 and 5", "Summarize link 2 and 3",
     "summarizethe third link", "summarize link " \o LongNumber}

(***************************************************************************)
(* Language-model adapter (src/summarizer.py)                              *)
(***************************************************************************)

\* _ollama_chat: the stripped content of the reply; a failed call is caught and
\* turned into a string
_ollama_chat(lm) ==
    IF lm.ok THEN Strip(lm.text) ELSE "[ERROR] Failed to call Ollama chat: " \o lm.text

\* the sources generate_answer_from_sources makes a block of: those with a body
GroundedBlocks(sources) ==
    {i \in 1..Len(sources) : sources[i].content # "" \/ sources[i].snippet # ""}

\* generate_answer_from_sources calls the language model only if some source has a body
GroundedCallsLm(sources) == GroundedBlocks(sources) # {}

\* the end of generate_answer_from_sources: an empty output and one that holds the
\* sentinel become the sentinel
GroundedOutput(out) ==
    IF out = "" THEN RAG_FAILURE_CODE
    ELSE IF Contains(out, "RAG_CONTEXT_INSUFFICIENT") THEN RAG_FAILURE_CODE
    ELSE Strip(out)

\* the end of generate_general_answer
GeneralOutput(out) == IF out # "" THEN Strip(out) ELSE "I couldn't generate an answer."

\* one call to the server: what it does (ok, text) and what _ollama_chat, the end of
\* generate_answer_from_sources and the end of generate_general_answer make of it
LmCalls ==
    { [ok |-> o.ok, text |-> o.text,
       chat |-> _ollama_chat(o),
       grounded |-> GroundedOutput(_ollama_chat(o)),
       general |-> GeneralOutput(_ollama_chat(o))] : o \in LmOutcomes }

generate_answer_from_sources(query, sources, lm) ==
    IF ~GroundedCallsLm(sources) THEN RAG_FAILURE_CODE ELSE lm.grounded

generate_general_answer(query, lm) == lm.general

\* the messages ChatBot.chat sends: the history, led by a system message
ChatMessages(history) ==
    IF history = <<>> \/ history[1].role # "system"
    THEN <<[role |-> "system", content |-> "You are a helpful assistant."]>> \o history
    ELSE history

\* ChatBot.chat
ChatBot_chat(history, lm) == lm.chat

(***************************************************************************)
(* Article fetching and sources (src/app.py)                               *)
(***************************************************************************)

MAX_CHARS_PER_SOURCE == 6000

\* the excerpt length of a source in the system block
ExcerptChars == 500

RECURSIVE CollapseWs(_)
\* re.sub(r"\s+", " ", txt): every maximal run of white space becomes one space
CollapseWs(s) ==
    LET ws == {i \in 1..Len(s) : Ch(s, i) \in Whitespace}
    IN  IF ws = {} THEN s
        ELSE SubSeq(s, 1, Min(ws) - 1) \o " " \o CollapseWs(From(s, SkipWs(s, Min(ws))))

_clean_text(txt) == IF txt = "" THEN "" ELSE Strip(CollapseWs(txt))

\* what fetch_full_article makes of a download: the cleaned text, "" on any failure
Extracted(page) == IF ~page.ok \/ page.text = "" THEN "" ELSE _clean_text(page.text)

\* one download: what it does (ok, text) and the article extracted from it
Fetch(page) == [ok |-> page.ok, text |-> page.text, article |-> Extracted(page)]

PageFetches == {Fetch(o) : o \in PageOutcomes}

\* the downloads of every url during one fresh query: only the first page can be read, or
\* all can
ExtractWorlds ==
    { [u \in Urls |-> IF u = "https://example.com/1"
                      THEN Fetch(Delivered("Full  text\n of the page "))
                      ELSE Fetch(Raised("unreachable"))],
      [u \in Urls |-> Fetch(Delivered("Full  text\n of the page "))] }

\* fetch_full_article(url), page being what the download of url does
fetch_full_article(url, page) == IF url = "" THEN "" ELSE page.article

\* an entry of the result list that is not a dict
NotADict == [not_a_dict |-> TRUE]

\* isinstance(r, dict)
IsDict(r) == "not_a_dict" \notin DOMAIN r

\* r.get(key, ""), and r.get(key) or "": the entries of the model hold strings
Get(r, key) == IF key \in DOMAIN r THEN r[key] ELSE ""

\* url = r.get("url") or r.get("link") or "" for a dict, "" for any other entry
SourceUrl(r) ==
    IF ~IsDict(r) THEN ""
    ELSE IF Get(r, "url") # "" THEN Get(r, "url")
    ELSE Get(r, "link")

\* one entry of build_full_sources
FullSource(r, pages) ==
    LET title == IF IsDict(r) THEN Get(r, "title") ELSE ""
        url == SourceUrl(r)
        snippet == IF IsDict(r) THEN Get(r, "snippet") ELSE ""
        content == IF url # "" THEN fetch_full_article(url, pages[url]) ELSE ""
    IN  [title |-> title, url |-> url, snippet |-> snippet,
         content |-> Prefix(content, MAX_CHARS_PER_SOURCE)]

\* a builder that leaves out the entries it cannot fetch
build_full_sources_SkipsBroken(results, pages) ==
    LET usable == SelectSeq(results, LAMBDA r : SourceUrl(r) # "")
    IN  [i \in 1..Len(usable) |-> FullSource(usable[i], pages)]

build_full_sources(results, pages) == [i \in 1..Len(results) |-> FullSource(results[i], pages)]

\* the one character the code appends to a cut excerpt, U+2026.  A string of this module
\* holds ASCII characters only: the character chr(26) stands for it, and no other text of
\* the module holds that character.
Ellipsis == ""

\* one numbered entry of _sources_as_system_block
SourceBlock(i, s) ==
    LET body == IF s.content # "" THEN s.content ELSE s.snippet
        excerpt == IF Len(body) > ExcerptChars THEN Prefix(body, ExcerptChars) \o Ellipsis
                   ELSE body
    IN  "[" \o ToString(i) \o "] " \o s.title \o "\nURL: " \o s.url \o "\n" \o excerpt

RECURSIVE JoinBlocks(_, _)
\* "\n\n".join of the blocks of sources i..Len(sources)
JoinBlocks(sources, i) ==
    IF i > Len(sources) THEN ""
    ELSE IF i = Len(sources) THEN SourceBlock(i, sources[i])
    ELSE SourceBlock(i, sources[i]) \o "\n\n" \o JoinBlocks(sources, i + 1)

_sources_as_system_block(sources) == JoinBlocks(sources, 1)

(***************************************************************************)
(* Session helpers (src/app.py)                                            *)
(***************************************************************************)

Msg(role, content) == [role |-> role, content |-> content]

SystemInstruction ==
    "You are allowed to use the following RAG sources in all future responses. When the user says 'first link' or 'second link', refer to the numbered list below."

\* a session created with the source list left out of its system messages
InitialTranscript_NoSourceBlock(user_q, bot_answer_plain, sources) ==
    << Msg("system", SystemInstruction),
       Msg("user", user_q),
       Msg("assistant", bot_answer_plain) >>

\* the transcript _create_initial_session stores
InitialTranscript(user_q, bot_answer_plain, sources) ==
    << Msg("system", SystemInstruction),
       Msg("system", "RAG_SOURCES:\n" \o _sources_as_system_block(sources)),
       Msg("user", user_q),
       Msg("assistant", bot_answer_plain) >>

(***************************************************************************)
(* Requests.  Every request is served by a worker thread of the server.    *)
(* A worker's record holds the handler's local variables, the calls the    *)
(* handler made to its collaborators (calls, in order) and the response.   *)
(***************************************************************************)

\* requests the model admits in one run
MaxRequests == 3

\* sessions the model creates in one run
MaxSessions == 2

\* request threads of the server
NumWorkers == 2

Workers == 1..NumWorkers

\* session_id = None, and a request's empty session_id field
NullId == 0

Call(fn, query, sources, messages, reply) ==
    [fn |-> fn, query |-> query, sources |-> sources, messages |-> messages, reply |-> reply]

SearchCall(query, results) == Call("search", query, results, <<>>, "")

ExtractCall(url, content) == Call("extract", url, <<>>, <<>>, content)

GroundedCall(query, sources, reply) == Call("grounded", query, sources, <<>>, reply)

GeneralCall(query, reply) == Call("general", query, <<>>, <<>>, reply)

ChatCallRec(messages, reply) == Call("chat", "", <<>>, messages, reply)

\* pair and idx are what the two detectors return on user_msg; seen holds len(srcs) for
\* every list srcs the handler read from SOURCES, in the order of the reads.  lmFailed (a
\* call to the language model raised), sent (the positions' owners in the transcript handed
\* to the chat collaborator) and created (the arguments of _create_initial_session) record
\* what happened for the properties below; no handler reads them.
IdleWorker ==
    [pc |-> "idle", op |-> "none", rid |-> 0, session_id |-> NullId, user_msg |-> "",
     pair |-> None, idx |-> None, seen |-> <<>>, path |-> "none", reply |-> "",
     calls |-> <<>>,
     lmFailed |-> FALSE, sent |-> <<>>, status |-> 0, answer |-> "", sources |-> <<>>,
     created |-> None, history |-> <<>>]

\* a response is sent as soon as it is ready: no thread takes a step between a handler's
\* return and the delivery of its response
Delivering == \E v \in Workers : worker[v].pc = "done"

\* the idle thread that takes the next request
NextIdle(w) == worker[w].pc = "idle" /\ \A v \in Workers : v < w => worker[v].pc # "idle"

\* the answer as delivered to the client
NlToBr(answer) == Replace(answer, "\n", "<br>")

\* the error-tag test of api_ask
IsErrorTagged(answer) == StartsWith(answer, "ERROR:")

(***************************************************************************)
(* POST /api/ask (src/app.py, api_ask)                                     *)
(***************************************************************************)

\* the extraction calls of build_full_sources, one per result with a url
RECURSIVE ExtractCalls(_, _, _)
ExtractCalls(results, pages, i) ==
    IF i > Len(results) THEN <<>>
    ELSE (IF SourceUrl(results[i]) # ""
          THEN <<ExtractCall(SourceUrl(results[i]),
                             fetch_full_article(SourceUrl(results[i]),
                                                pages[SourceUrl(results[i])]))>>
          ELSE <<>>) \o ExtractCalls(results, pages, i + 1)

\* a handler that searches whatever the classifier says
RetrievalCalls_Always(bypass, query, searched, results, pages) ==
    <<SearchCall(query, searched)>> \o ExtractCalls(searched, pages, 1)

\* the calls of api_ask to the search and the extraction: none when the classifier
\* bypasses the retrieval
RetrievalCalls(bypass, query, searched, results, pages) ==
    IF bypass THEN <<>>
    ELSE <<SearchCall(query, searched)>> \o ExtractCalls(results, pages, 1)

\* the response's sources field filled from the enriched list
ResponseSources_Enriched(results, full_sources) == full_sources

\* "sources": results
ResponseSources(results, full_sources) == results

\* a fallback that keeps what was retrieved
DiscardSources_Kept(results, full_sources) == [results |-> results, full_sources |-> full_sources]

\* results, full_sources = [], [] on the way to the general-reasoning fallback
DiscardSources(results, full_sources) == [results |-> <<>>, full_sources |-> <<>>]

\* the session test of api_ask: a session is created from this answer
CreatesSession(answer) == answer # "" /\ ~IsErrorTagged(answer)

\* api_ask on the request body {query: raw}: the response, the session to store (if
\* create) and the calls made.  searched is what web_search returns for the query, pages
\* what the extraction does, lmG and lmN what the language model does on the grounded and
\* on the general call.
api_ask(raw, searched, pages, lmG, lmN) ==
    LET query == Strip(raw)
        bypass == is_simple_logical_query(query)
        results == IF bypass THEN <<>> ELSE searched
        full_sources == build_full_sources(results, pages)
        rag == ~bypass /\ full_sources # <<>> /\ Len(results) > 0
        grounded == generate_answer_from_sources(query, full_sources, lmG)
        fallback == ~rag \/ grounded = RAG_FAILURE_CODE
        kept == IF fallback THEN DiscardSources(results, full_sources)
                ELSE [results |-> results, full_sources |-> full_sources]
        answer == IF fallback THEN generate_general_answer(query, lmN) ELSE grounded
        plain_answer == Replace(answer, "<br>", "\n")
        create == CreatesSession(answer)
    IN  IF query = ""
        THEN [status |-> 400, query |-> query, answer |-> "", shown |-> "", results |-> <<>>,
              create |-> FALSE, plain_answer |-> "", transcript |-> <<>>,
              full_sources |-> <<>>, calls |-> <<>>, lmFailed |-> FALSE]
        ELSE [status |-> 200,
              query |-> query,
              answer |-> answer,
              shown |-> NlToBr(answer),
              results |-> ResponseSources(kept.results, kept.full_sources),
              create |-> create,
              plain_answer |-> plain_answer,
              transcript |-> IF create
                             THEN InitialTranscript(query, plain_answer, kept.full_sources)
                             ELSE <<>>,
              full_sources |-> kept.full_sources,
              calls |-> RetrievalCalls(bypass, query, searched, results, pages)
                        \o (IF rag THEN <<GroundedCall(query, full_sources, grounded)>> ELSE <<>>)
                        \o (IF fallback THEN <<GeneralCall(query, answer)>> ELSE <<>>),
              lmFailed |-> \/ rag /\ GroundedCallsLm(full_sources) /\ ~lmG.ok
                           \/ fallback /\ ~lmN.ok]

AskInputs == Queries \X SearchOutcomes \X ExtractWorlds \X LmCalls \X LmCalls

\* api_ask on every input of the model
AskOutcomes == {api_ask(in[1], in[2], in[3], in[4], in[5]) : in \in AskInputs}

\* SOURCES.get(session_id) or []
StoredSources(session_id) ==
    IF session_id \in DOMAIN SOURCES THEN SOURCES[session_id] ELSE <<>>

\* api_ask as run by worker w, up to the first store of _create_initial_session
\* (SESSIONS[session_id] = [...]); a request that creates no session ends here
Ask(w) ==
    /\ NextIdle(w)
    /\ ~Delivering
    /\ nreq < MaxRequests
    /\ Len(SESSIONS) < MaxSessions
    /\ \E r \in AskOutcomes :
        LET session_id == IF r.create THEN Len(SESSIONS) + 1 ELSE NullId
        IN  /\ nreq' = nreq + 1
            /\ UNCHANGED <<SOURCES, unit>>
            /\ SESSIONS' = IF r.create THEN Append(SESSIONS, r.transcript) ELSE SESSIONS
            /\ origin' = IF r.create THEN Append(origin, [i \in 1..Len(r.transcript) |-> 0])
                         ELSE origin
            /\ worker' = [worker EXCEPT ![w] =
                 [IdleWorker EXCEPT !.pc = IF r.create THEN "store_sources" ELSE "done",
                                    !.op = "ask", !.rid = nreq + 1,
                                    !.user_msg = r.query,
                                    !.status = r.status,
                                    !.session_id = session_id,
                                    !.reply = r.answer,
                                    !.answer = r.shown,
                                    !.sources = r.results,
                                    !.calls = r.calls,
                                    !.lmFailed = r.lmFailed,
                                    !.created = IF r.create
                                                THEN <<[q |-> r.query, a |-> r.plain_answer,
                                                        sources |-> r.full_sources]>>
                                                ELSE None]]

\* the second store of _create_initial_session, SOURCES[session_id] = sources or [], and
\* the response of api_ask
StoreSources(w) ==
    /\ worker[w].pc = "store_sources"
    /\ ~Delivering
    /\ SOURCES' = [id \in DOMAIN SOURCES \cup {worker[w].session_id} |->
                       IF id = worker[w].session_id THEN worker[w].created[1].sources
                       ELSE SOURCES[id]]
    /\ worker' = [worker EXCEPT ![w].pc = "done"]
    /\ UNCHANGED <<SESSIONS, origin, nreq, unit>>

(***************************************************************************)
(* POST /api/chat (src/app.py, api_chat and _append_and_get_reply)         *)
(***************************************************************************)

\* 1 <= i <= n
Within(i, n) == 1 <= i /\ i <= n

\* 1 <= i <= len(srcs)
InBounds(i, srcs) == Within(i, Len(srcs))

\* the detector returned a value: it neither returned None nor raised
Detected(found) == found # None /\ found # Raises

\* the dict api_chat builds from a stored source
SourceCopy(s) == [title |-> s.title, url |-> s.url, snippet |-> s.snippet, content |-> s.content]

\* both entries taken from the first index
PairSources_FirstTwice(srcs, pair) == <<SourceCopy(srcs[pair[1]]), SourceCopy(srcs[pair[1]])>>

\* sources_for_model of the pair fast-path
PairSources(srcs, pair) == <<SourceCopy(srcs[pair[1]]), SourceCopy(srcs[pair[2]])>>

PairQuestion(pair, user_msg) ==
    "Compare ONLY these two sources (# " \o ToString(pair[1]) \o " and # "
        \o ToString(pair[2]) \o "). "
        \o "Highlight similarities, differences, main arguments, tone, and key insights. "
        \o "User request: " \o user_msg

\* the single-index fast-path fetches the article again when the source has no body
NeedsRefetch(target) ==
    Strip(IF target.content # "" THEN target.content ELSE target.snippet) = ""

\* target of the single-index fast-path: the stored source, or a new dict with the
\* content just fetched
IndexTarget(srcs, idx, page) ==
    LET target == srcs[idx]
    IN  IF NeedsRefetch(target)
        THEN [title |-> target.title, url |-> target.url, snippet |-> target.snippet,
              content |-> fetch_full_article(target.url, page)]
        ELSE target

IndexQuestion(idx, user_msg) ==
    "Summarize ONLY the selected source (#" \o ToString(idx) \o "). " \o user_msg

\* a repair that writes the fetched content back into the stored source
StoredAfterIndexPath_WriteBack(srcs, idx, target) == [srcs EXCEPT ![idx] = target]

\* SOURCES[session_id] after the single-index fast-path: target is bound to a new dict
\* and the stored list is not written
StoredAfterIndexPath(srcs, idx, target) == srcs

\* reply of a fast-path: grounded generation, general reasoning on the raw follow-up
\* if it returns the sentinel
FastReply(question, sources, user_msg, lmG, lmN) ==
    LET grounded == generate_answer_from_sources(question, sources, lmG)
        fallback == grounded = RAG_FAILURE_CODE
        general == generate_general_answer(user_msg, lmN)
    IN  [reply |-> IF fallback THEN general ELSE grounded,
         calls |-> <<GroundedCall(question, sources, grounded)>>
                   \o (IF fallback THEN <<GeneralCall(user_msg, general)>> ELSE <<>>),
         lmFailed |-> \/ GroundedCallsLm(sources) /\ ~lmG.ok
                      \/ fallback /\ ~lmN.ok]

\* a store that keeps only the latest write: the new message takes the last entry's place
AppendMessage_LastWriteWins(history, role, content) ==
    [history EXCEPT ![Len(history)] = Msg(role, content)]

\* history.append({"role": role, "content": content})
AppendMessage(history, role, content) == Append(history, Msg(role, content))

\* the follow-up texts of the model as api_chat holds them, with what the two detectors
\* return on each
FollowUpRequests ==
    { [user_msg |-> Strip(raw),
       pair |-> detect_two_links(Strip(raw)),
       idx |-> detect_link_index(Strip(raw))] : raw \in FollowUps }

\* single-index detection tried before pair detection
FollowUpPath_IndexFirst(pair, idx, srcs) ==
    IF idx = Raises THEN "error"
    ELSE IF idx # None /\ InBounds(idx[1], srcs) THEN "index"
    ELSE IF pair = Raises THEN "error"
    ELSE IF pair # None /\ InBounds(pair[1], srcs) /\ InBounds(pair[2], srcs) THEN "pair"
    ELSE "default"

\* the branch api_chat takes: the pair fast-path, the single-index fast-path, or the
\* default chat over the full history; "error" if the detector it has come to raises (the
\* except clause of api_chat)
FollowUpPath(pair, idx, srcs) ==
    IF pair = Raises THEN "error"
    ELSE IF pair # None /\ InBounds(pair[1], srcs) /\ InBounds(pair[2], srcs) THEN "pair"
    ELSE IF idx = Raises THEN "error"
    ELSE IF idx # None /\ InBounds(idx[1], srcs) THEN "index"
    ELSE "default"

\* the pair was detected and is out of the bounds of the list read: api_chat goes on to
\* detect_link_index and reads SOURCES again
PairOutOfBounds(pair, srcs) ==
    Detected(pair) /\ ~(InBounds(pair[1], srcs) /\ InBounds(pair[2], srcs))

\* api_chat from the branch taken (path, on the list srcs read from SOURCES) to its first
\* write to the session: on a fast-path the grounded request, on the default path
\* nothing.  A detector that raises ends the request with the 500 of the except clause.
TakePath(w, req, path, srcs) ==
    LET session_id == req.session_id
        user_msg == req.user_msg
        pair == req.pair
        idx == req.idx
    IN  IF path = "error"
        THEN /\ worker' = [worker EXCEPT ![w] =
                              [req EXCEPT !.pc = "done", !.path = path, !.status = 500]]
             /\ UNCHANGED SOURCES
        ELSE IF path = "default"
        THEN /\ worker' = [worker EXCEPT ![w] =
                              [req EXCEPT !.pc = "append_user", !.path = path]]
             /\ UNCHANGED SOURCES
        ELSE \E page \in PageFetches, lmG \in LmCalls, lmN \in LmCalls :
               LET target == IndexTarget(srcs, idx[1], page)
                   fast == IF path = "pair"
                           THEN FastReply(PairQuestion(pair, user_msg),
                                          PairSources(srcs, pair), user_msg, lmG, lmN)
                           ELSE FastReply(IndexQuestion(idx[1], user_msg),
                                          <<target>>, user_msg, lmG, lmN)
                   refetch == IF path = "index" /\ NeedsRefetch(srcs[idx[1]])
                              THEN <<ExtractCall(srcs[idx[1]].url, target.content)>>
                              ELSE <<>>
               IN  /\ worker' = [worker EXCEPT ![w] =
                        [req EXCEPT !.pc = "append_user", !.path = path,
                                    !.reply = fast.reply,
                                    !.calls = refetch \o fast.calls,
                                    !.lmFailed = fast.lmFailed]]
                   /\ SOURCES' = IF path = "index"
                                 THEN [SOURCES EXCEPT ![session_id] =
                                           StoredAfterIndexPath(srcs, idx[1], target)]
                                 ELSE SOURCES

\* api_chat from the request to its first write to the session or, when the pair detected
\* is out of the bounds of the stored list, to the end of the pair branch: validation,
\* detect_two_links and one read of SOURCES.  With no pair detected the handler reads
\* SOURCES once, after detect_link_index, and the step goes on to the branch taken.
ChatBegin(w) ==
    /\ NextIdle(w)
    /\ ~Delivering
    /\ nreq < MaxRequests
    /\ nreq' = nreq + 1
    /\ UNCHANGED <<SESSIONS, origin, unit>>
    /\ \E session_id \in 0..MaxSessions, f \in FollowUpRequests :
        LET user_msg == f.user_msg
            req == [IdleWorker EXCEPT !.op = "chat", !.rid = nreq + 1,
                                      !.session_id = session_id, !.user_msg = user_msg,
                                      !.pair = f.pair, !.idx = f.idx]
        IN  IF session_id = NullId \/ user_msg = ""
            THEN /\ worker' = [worker EXCEPT ![w] = [req EXCEPT !.pc = "done", !.status = 400]]
                 /\ UNCHANGED SOURCES
            ELSE IF session_id \notin DOMAIN SESSIONS
            THEN /\ worker' = [worker EXCEPT ![w] = [req EXCEPT !.pc = "done", !.status = 404]]
                 /\ UNCHANGED SOURCES
            ELSE LET srcs == StoredSources(session_id)
                     reads == Detected(f.pair) \/ (f.pair = None /\ Detected(f.idx))
                     read == [req EXCEPT !.seen = IF reads THEN <<Len(srcs)>> ELSE <<>>]
                 IN  IF PairOutOfBounds(f.pair, srcs)
                     THEN /\ worker' = [worker EXCEPT ![w] = [read EXCEPT !.pc = "detect_index"]]
                          /\ UNCHANGED SOURCES
                     ELSE TakePath(w, read, FollowUpPath(f.pair, f.idx, srcs), srcs)

\* api_chat after a pair out of bounds: detect_link_index and the second read of SOURCES
ChatIndex(w) ==
    /\ worker[w].pc = "detect_index"
    /\ ~Delivering
    /\ UNCHANGED <<SESSIONS, origin, nreq, unit>>
    /\ LET srcs == StoredSources(worker[w].session_id)
           read == [worker[w] EXCEPT !.seen = IF Detected(worker[w].idx)
                                              THEN Append(@, Len(srcs)) ELSE @]
       IN  TakePath(w, read, FollowUpPath(None, worker[w].idx, srcs), srcs)

\* a store in which all the sessions share one list: the user message shows in every
\* transcript
AppendUser_SharedTranscript(w) ==
    /\ worker[w].pc = "append_user"
    /\ ~Delivering
    /\ SESSIONS' = [id \in DOMAIN SESSIONS |->
                        AppendMessage(SESSIONS[id], "user", worker[w].user_msg)]
    /\ origin' = [id \in DOMAIN origin |-> Append(origin[id], worker[w].rid)]
    /\ worker' = [worker EXCEPT ![w].pc =
                      IF worker[w].path = "default" THEN "chat_call" ELSE "append_reply"]
    /\ UNCHANGED <<SOURCES, nreq, unit>>

\* history.append({"role": "user", "content": user_msg}) on the session's list
AppendUser(w) ==
    /\ worker[w].pc = "append_user"
    /\ ~Delivering
    /\ SESSIONS' = [SESSIONS EXCEPT ![worker[w].session_id] =
                        AppendMessage(@, "user", worker[w].user_msg)]
    /\ origin' = [origin EXCEPT ![worker[w].session_id] = Append(@, worker[w].rid)]
    /\ worker' = [worker EXCEPT ![w].pc =
                      IF worker[w].path = "default" THEN "chat_call" ELSE "append_reply"]
    /\ UNCHANGED <<SOURCES, nreq, unit>>

\* bot.chat(history=history) of _append_and_get_reply: the request body is built from the
\* session's list as it is when the call is made
ChatCall(w) ==
    /\ worker[w].pc = "chat_call"
    /\ ~Delivering
    /\ \E lm \in LmCalls :
        LET history == SESSIONS[worker[w].session_id]
            reply == ChatBot_chat(history, lm)
        IN  worker' = [worker EXCEPT ![w].pc = "append_reply",
                                     ![w].reply = reply,
                                     ![w].calls = Append(@, ChatCallRec(ChatMessages(history), reply)),
                                     ![w].lmFailed = ~lm.ok,
                                     ![w].sent = origin[worker[w].session_id]]
    /\ UNCHANGED <<SESSIONS, SOURCES, origin, nreq, unit>>

\* a handler that works on its own copy of the transcript, taken when it appended the user
\* message, and stores the copy with the reply appended
AppendReply_WritesBackCopy(w) ==
    LET id == worker[w].session_id
        own == CHOOSE i \in DOMAIN origin[id] : origin[id][i] = worker[w].rid
    IN  /\ worker[w].pc = "append_reply"
        /\ ~Delivering
        /\ SESSIONS' = [SESSIONS EXCEPT ![id] =
                            AppendMessage(SubSeq(@, 1, own), "assistant", worker[w].reply)]
        /\ origin' = [origin EXCEPT ![id] = Append(SubSeq(@, 1, own), worker[w].rid)]
        /\ worker' = [worker EXCEPT ![w].pc = "done",
                                    ![w].status = 200,
                                    ![w].answer = NlToBr(worker[w].reply)]
        /\ UNCHANGED <<SOURCES, nreq, unit>>

\* a handler that answers a failed language-model call with a 500 and does not append the
\* reply: the user message it appended stays
AppendReply_DropsFailedReply(w) ==
    /\ worker[w].pc = "append_reply"
    /\ ~Delivering
    /\ SESSIONS' = IF worker[w].lmFailed THEN SESSIONS
                   ELSE [SESSIONS EXCEPT ![worker[w].session_id] =
                            AppendMessage(@, "assistant", worker[w].reply)]
    /\ origin' = IF worker[w].lmFailed THEN origin
                 ELSE [origin EXCEPT ![worker[w].session_id] = Append(@, worker[w].rid)]
    /\ worker' = [worker EXCEPT ![w].pc = "done",
                                ![w].status = IF worker[w].lmFailed THEN 500 ELSE 200,
                                ![w].answer = NlToBr(worker[w].reply)]
    /\ UNCHANGED <<SOURCES, nreq, unit>>

\* history.append({"role": "assistant", "content": reply}) and the 200 response
AppendReply(w) ==
    /\ worker[w].pc = "append_reply"
    /\ ~Delivering
    /\ SESSIONS' = [SESSIONS EXCEPT ![worker[w].session_id] =
                        AppendMessage(@, "assistant", worker[w].reply)]
    /\ origin' = [origin EXCEPT ![worker[w].session_id] = Append(@, worker[w].rid)]
    /\ worker' = [worker EXCEPT ![w].pc = "done",
                                ![w].status = 200,
                                ![w].answer = NlToBr(worker[w].reply)]
    /\ UNCHANGED <<SOURCES, nreq, unit>>

(***************************************************************************)
(* GET /api/chat/history (src/app.py, api_chat_history)                    *)
(***************************************************************************)

\* sender = "user" if role == "user" else "bot"
Sender(role) == IF role = "user" THEN "user" ELSE "bot"

\* a history that leaves the system messages out
ui_history_WithoutSystem(history) ==
    LET shown == SelectSeq(history, LAMBDA msg : msg.role # "system")
    IN  [i \in DOMAIN shown |->
            [sender |-> Sender(Lower(shown[i].role)), text |-> NlToBr(shown[i].content)]]

\* ui_history: one entry per message of the transcript
ui_history(history) ==
    [i \in DOMAIN history |->
        [sender |-> Sender(Lower(history[i].role)), text |-> NlToBr(history[i].content)]]

\* a handler that answers an unknown session id with an empty history
api_chat_history_Lenient(session_id) ==
    IF session_id = NullId THEN [status |-> 400, history |-> <<>>]
    ELSE IF session_id \notin DOMAIN SESSIONS THEN [status |-> 200, history |-> <<>>]
    ELSE [status |-> 200, history |-> ui_history(SESSIONS[session_id])]

\* api_chat_history on the query parameter session_id: the status and the history
api_chat_history(session_id) ==
    IF session_id = NullId THEN [status |-> 400, history |-> <<>>]
    ELSE IF session_id \notin DOMAIN SESSIONS THEN [status |-> 400, history |-> <<>>]
    ELSE [status |-> 200, history |-> ui_history(SESSIONS[session_id])]

\* api_chat_history as run by worker w
History(w) ==
    /\ NextIdle(w)
    /\ ~Delivering
    /\ nreq < MaxRequests
    /\ nreq' = nreq + 1
    /\ \E session_id \in 0..MaxSessions :
        worker' = [worker EXCEPT ![w] =
            [IdleWorker EXCEPT !.pc = "done", !.op = "history", !.rid = nreq + 1,
                               !.session_id = session_id,
                               !.status = api_chat_history(session_id).status,
                               !.history = api_chat_history(session_id).history]]
    /\ UNCHANGED <<SESSIONS, SOURCES, origin, unit>>

\* the response has been sent and the thread serves the next request
Return(w) ==
    /\ worker[w].pc = "done"
    /\ worker' = [worker EXCEPT ![w] = IdleWorker]
    /\ UNCHANGED <<SESSIONS, SOURCES, origin, nreq, unit>>

(***************************************************************************)
(* The server                                                              *)
(***************************************************************************)

\* no function is called on its own
NoUnit == [fn |-> "none", text |-> "", results |-> <<>>, pages |-> <<>>, out |-> <<>>]

Init ==
    /\ SESSIONS = <<>>
    /\ SOURCES = <<>>
    /\ origin = <<>>
    /\ worker = [w \in Workers |-> IdleWorker]
    /\ nreq = 0
    /\ unit = NoUnit

Next ==
    \E w \in Workers :
        \/ Ask(w)
        \/ StoreSources(w)
        \/ ChatBegin(w)
        \/ ChatIndex(w)
        \/ AppendUser(w)
        \/ ChatCall(w)
        \/ AppendReply(w)
        \/ History(w)
        \/ Return(w)

Spec == Init /\ [][Next]_vars

(***************************************************************************)
(* The server with requests that do not overlap: a request is taken only   *)
(* when no other request is in progress.                                   *)
(***************************************************************************)

\* no request is in progress
NoRequest == \A v \in Workers : worker[v].pc = "idle"

AskAlone(w) == NoRequest /\ Ask(w)

ChatBeginAlone(w) == NoRequest /\ ChatBegin(w)

HistoryAlone(w) == NoRequest /\ History(w)

NextSerial ==
    \E w \in Workers :
        \/ AskAlone(w)
        \/ StoreSources(w)
        \/ ChatBeginAlone(w)
        \/ ChatIndex(w)
        \/ AppendUser(w)
        \/ ChatCall(w)
        \/ AppendReply(w)
        \/ HistoryAlone(w)
        \/ Return(w)

SpecSerial == Init /\ [][NextSerial]_vars

(***************************************************************************)
(* The functions of app.py on their own.  A behaviour of SpecUnit starts   *)
(* with an argument (a follow-up text, or a result list with what the      *)
(* downloads of its urls do) and applies one function to it.               *)
(***************************************************************************)

\* the parts the follow-up texts of SpecUnit are made of
TextHeads == {"", "summarize ", "Explain the ", "tell me about the ", "more  details "}

TextRefs == {"link 2", "#0", "0", "3", "second", "1st", "best", "link 0", "eleventh", "10th"}

TextTails == {"", " link", " one", " and 4", " vs third", " link 5", ", 0"}

\* texts with the white space characters chr(11) and chr(28)..chr(31), and texts with a
\* number too long for int()
ResolverTextsMore ==
    {"summarizelink2", "moredetails 3", "explainthe secondone",
     "link4 & 0", " secondlink ", "bestlink #5", "1vs3",
     "summarize link " \o LongNumber, "explain the best link #" \o LongNumber,
     "compare 1 and " \o LongNumber}

ResolverTexts ==
    {h \o r \o t : h \in TextHeads, r \in TextRefs, t \in TextTails} \cup ResolverTextsMore

\* entries of a result list: a full result, one with a link key instead of url, one
\* without url, one with an empty url, one that is not a dict, one with a url only
UnitEntries ==
    { [title |-> "A", url |-> "https://example.com/1", snippet |-> "about a"],
      [title |-> "B", link |-> "https://example.com/2", snippet |-> ""],
      [title |-> "C", snippet |-> "no url"],
      [title |-> "D", url |-> "", snippet |-> "empty url"],
      NotADict,
      [url |-> "https://example.com/3"] }

\* the longest result list of SpecUnit
MaxResults == 3

UnitResultLists == UNION {[1..n -> UnitEntries] : n \in 0..MaxResults}

\* what the downloads do: those of ExtractWorlds, and one in which the first page is long,
\* the second cannot be read and the third is empty
UnitWorlds ==
    ExtractWorlds \cup
    { [u \in Urls |-> IF u = "https://example.com/1" THEN Fetch(Delivered(LongArticle))
                      ELSE IF u = "https://example.com/2" THEN Fetch(Raised("unreachable"))
                      ELSE Fetch(Delivered(""))] }

UnitInputs ==
    {[NoUnit EXCEPT !.fn = "text", !.text = t] : t \in ResolverTexts}
        \cup {[NoUnit EXCEPT !.fn = "results", !.results = r, !.pages = p] :
                  r \in UnitResultLists, p \in UnitWorlds}

InitUnit ==
    /\ SESSIONS = <<>>
    /\ SOURCES = <<>>
    /\ origin = <<>>
    /\ worker = [w \in Workers |-> IdleWorker]
    /\ nreq = 0
    /\ unit \in UnitInputs

\* detect_link_index(text)
DetectIndex ==
    /\ unit.fn = "text"
    /\ unit' = [unit EXCEPT !.fn = "detect_link_index", !.out = detect_link_index(unit.text)]
    /\ UNCHANGED <<SESSIONS, SOURCES, origin, worker, nreq>>

\* detect_two_links(text)
DetectPair ==
    /\ unit.fn = "text"
    /\ unit' = [unit EXCEPT !.fn = "detect_two_links", !.out = detect_two_links(unit.text)]
    /\ UNCHANGED <<SESSIONS, SOURCES, origin, worker, nreq>>

\* build_full_sources(results)
BuildSources ==
    /\ unit.fn = "results"
    /\ unit' = [unit EXCEPT !.fn = "build_full_sources",
                            !.out = build_full_sources(unit.results, unit.pages)]
    /\ UNCHANGED <<SESSIONS, SOURCES, origin, worker, nreq>>

NextUnit == DetectIndex \/ DetectPair \/ BuildSources

SpecUnit == InitUnit /\ [][NextUnit]_vars

(***************************************************************************)
(* Properties                                                              *)
(***************************************************************************)

\* worker w has finished a follow-up that passed validation (its response is ready)
FollowUpDone(w) ==
    worker[w].pc = "done" /\ worker[w].op = "chat" /\ worker[w].status = 200

\* worker w has finished a fresh query that passed validation
AskDone(w) ==
    worker[w].pc = "done" /\ worker[w].op = "ask" /\ worker[w].status = 200

\* the positions of the session's transcript written by the request of worker w
OwnEntries(w) ==
    {i \in DOMAIN origin[worker[w].session_id] : origin[worker[w].session_id][i] = worker[w].rid}

\* the greatest element of a non-empty set of integers
Max(S) == CHOOSE m \in S : \A n \in S : n <= m

\* s is a prefix of t
IsPrefix(s, t) == Len(s) <= Len(t) /\ \A i \in DOMAIN s : s[i] = t[i]

\* the calls of worker w to collaborator fn, in order
CallsTo(w, fn) == SelectSeq(worker[w].calls, LAMBDA c : c.fn = fn)

\* the string _ollama_chat makes of a failed call
IsFailedCallString(answer) == StartsWith(answer, "[ERROR] Failed to call Ollama")

\* C1 (as claimed): when a call to the language model fails during a follow-up, the
\* session's transcript holds no entry of that request: it is as it was before the request.
C1_FailedFollowUpLeavesTranscript ==
    \A w \in Workers :
        (FollowUpDone(w) /\ worker[w].lmFailed) => OwnEntries(w) = {}

\* C2 (as claimed): the appends of concurrent follow-ups on one session are serialized.
\* In every transcript a follow-up's user message that is not the last entry is directly
\* followed by that follow-up's assistant reply, and the transcript handed to the chat
\* collaborator holds no unanswered user message of another request.
C2_AppendsSerialized ==
    /\ \A id \in DOMAIN SESSIONS : \A i \in DOMAIN SESSIONS[id] :
            (origin[id][i] # 0 /\ SESSIONS[id][i].role = "user" /\ i < Len(SESSIONS[id]))
            => (origin[id][i + 1] = origin[id][i] /\ SESSIONS[id][i + 1].role = "assistant")
    /\ \A w \in Workers : \A i \in DOMAIN worker[w].sent :
            (worker[w].sent[i] \notin {0, worker[w].rid}
                /\ SESSIONS[worker[w].session_id][i].role = "user")
            => \E j \in DOMAIN worker[w].sent : j > i /\ worker[w].sent[j] = worker[w].sent[i]

\* C3 (as claimed): a fresh query creates a session iff its final answer is non-empty, is
\* not error-tagged and is not the error string of a failed language-model call.
C3_SessionIffRealAnswer ==
    \A w \in Workers :
        AskDone(w) =>
            (worker[w].session_id # NullId
                <=> (/\ worker[w].reply # ""
                     /\ ~IsErrorTagged(worker[w].reply)
                     /\ ~IsFailedCallString(worker[w].reply)))

\* what a follow-up that returned an answer wrote: two entries, first the user message with
\* the follow-up text, later the assistant message with the reply
C4_OwnTurn ==
    \A w \in Workers :
        FollowUpDone(w) =>
            /\ Cardinality(OwnEntries(w)) = 2
            /\ Max(OwnEntries(w)) <= Len(SESSIONS[worker[w].session_id])
            /\ SESSIONS[worker[w].session_id][Min(OwnEntries(w))]
                   = Msg("user", worker[w].user_msg)
            /\ SESSIONS[worker[w].session_id][Max(OwnEntries(w))]
                   = Msg("assistant", worker[w].reply)

\* every step leaves every transcript a prefix of what it becomes
C4_Grows ==
    \A id \in DOMAIN SESSIONS :
        id \in DOMAIN SESSIONS' /\ IsPrefix(SESSIONS[id], SESSIONS'[id])

\* C4: transcripts are append-only.  A follow-up that returns an answer adds exactly two
\* entries (its user message, then its assistant reply), and no step changes, removes or
\* reorders an entry already in a transcript.
C4_AppendOnly == [](C4_OwnTurn) /\ [][C4_Grows]_vars

\* a follow-up has returned an answer on a session that already held an earlier follow-up
C4_Witness ==
    \E w \in Workers : FollowUpDone(w) /\ Len(SESSIONS[worker[w].session_id]) >= 8

\* worker w stores the transcript of a new session in this step
C5_Creates(w) == worker[w].pc = "idle" /\ worker'[w].pc = "store_sources"

\* the transcript stored for a new session: the instruction and the numbered source list
\* as system messages, then the user message q and the assistant message a
C5_FourEntries ==
    \A w \in Workers :
        C5_Creates(w) =>
            LET c == worker'[w].created[1]
                h == SESSIONS'[worker'[w].session_id]
            IN  /\ Len(h) = 4
                /\ h[1] = Msg("system", SystemInstruction)
                /\ h[2].role = "system"
                /\ StartsWith(h[2].content, "RAG_SOURCES:")
                /\ \A i \in DOMAIN c.sources :
                       Contains(h[2].content,
                                "[" \o ToString(i) \o "] " \o c.sources[i].title
                                    \o "\nURL: " \o c.sources[i].url)
                /\ h[3] = Msg("user", c.q)
                /\ h[4] = Msg("assistant", c.a)

\* C5: right after _create_initial_session(q, a, sources) stores a transcript, the
\* transcript has four entries: the instruction and the numbered source list as system
\* messages, then the user message q and the assistant message a.
C5_InitialTranscript == [][C5_FourEntries]_vars

\* a session has just been created from a query that retrieved three sources: its
\* transcript is stored
C5_Witness ==
    \E w \in Workers :
        /\ worker[w].pc = "store_sources"
        /\ Len(worker[w].created[1].sources) = 3
        /\ Len(SESSIONS[worker[w].session_id]) = 4

\* every step leaves every stored source list as it is
C6_SourcesKept ==
    \A id \in DOMAIN SOURCES : id \in DOMAIN SOURCES' /\ SOURCES'[id] = SOURCES[id]

\* C6: a session's source list is immutable after creation.  No follow-up (pair fast-path,
\* single-index fast-path with or without the re-fetch of a source without body, default
\* chat) and no other step changes a stored source list.
C6_SourcesImmutable == [][C6_SourcesKept]_vars

\* a single-index follow-up has fetched the article of a stored source that had neither
\* content nor snippet, and got text
C6_Witness ==
    \E w \in Workers :
        /\ FollowUpDone(w) /\ worker[w].path = "index"
        /\ CallsTo(w, "extract") # <<>>
        /\ CallsTo(w, "extract")[1].reply # ""
        /\ SOURCES[worker[w].session_id][worker[w].idx[1]].content = ""

\* worker w serves a follow-up that passed validation (its branch is chosen)
Routed(w) == worker[w].op = "chat" /\ worker[w].path # "none"

\* the pair the follow-up of worker w names lies within the session's sources, as the
\* pair branch read them (the first read of the handler)
PairInBounds(w) ==
    /\ Detected(worker[w].pair)
    /\ worker[w].seen # <<>>
    /\ Within(worker[w].pair[1], worker[w].seen[1])
    /\ Within(worker[w].pair[2], worker[w].seen[1])

\* the single index the follow-up of worker w names lies within the session's sources, as
\* the handler last read them
IndexInBounds(w) ==
    /\ Detected(worker[w].idx)
    /\ worker[w].seen # <<>>
    /\ Within(worker[w].idx[1], worker[w].seen[Len(worker[w].seen)])

\* C7 (as claimed): a follow-up on which detect_two_links yields a pair and which also
\* matches detect_link_index is always served as a comparison.
C7_PairAlwaysComparison ==
    \A w \in Workers :
        (Routed(w) /\ worker[w].pair # None /\ worker[w].idx # None)
            => worker[w].path = "pair"

\* C7 (amended): pair detection comes first.  A follow-up whose pair lies within the
\* bounds of the session's source list, as the pair branch reads it, is served as a
\* comparison (one grounded request, with two sources), whatever detect_link_index makes of
\* it; a follow-up whose pair is out of these bounds falls through to single-index
\* detection (which ends the request with an error if detect_link_index raises) and the
\* handler reads the source list again.  The list read is empty while the session's
\* sources are not yet stored.
C7_InBoundsPairIsComparison ==
    \A w \in Workers :
        Routed(w) =>
            /\ PairInBounds(w) =>
                   /\ worker[w].path = "pair"
                   /\ Len(CallsTo(w, "grounded")) = 1
                   /\ Len(CallsTo(w, "grounded")[1].sources) = 2
            /\ (Detected(worker[w].pair) /\ ~PairInBounds(w)) =>
                   worker[w].path = IF worker[w].idx = Raises THEN "error"
                                    ELSE IF IndexInBounds(w) THEN "index" ELSE "default"

\* a follow-up that both detectors match, with its pair in bounds, was served as a comparison
C7_Witness ==
    \E w \in Workers :
        /\ FollowUpDone(w) /\ PairInBounds(w) /\ worker[w].idx # None
        /\ worker[w].path = "pair"

\* C8 (as claimed): a follow-up to which no fast-path applies is answered by the default
\* chat.  It does not error; the chat collaborator is called exactly once, with the entire
\* transcript ending in the new user message; the user message and the reply are appended;
\* the grounded collaborator is not called.
C8_DefaultChat ==
    \A w \in Workers :
        (Routed(w) /\ ~PairInBounds(w) /\ ~IndexInBounds(w)) =>
            /\ worker[w].path = "default"
            /\ CallsTo(w, "grounded") = <<>>
            /\ Len(CallsTo(w, "chat")) <= 1
            /\ \A k \in DOMAIN CallsTo(w, "chat") :
                   LET m == CallsTo(w, "chat")[k].messages
                   IN  /\ IsPrefix(m, SESSIONS[worker[w].session_id])
                       /\ m[1].role = "system" /\ m[2].role = "system"
                       /\ m[Len(m)] = Msg("user", worker[w].user_msg)
                       /\ Len(m) = Min(OwnEntries(w))
            /\ worker[w].pc = "done" =>
                   /\ worker[w].status = 200
                   /\ Len(CallsTo(w, "chat")) = 1
                   /\ Cardinality(OwnEntries(w)) = 2
                   /\ SESSIONS[worker[w].session_id][Max(OwnEntries(w))]
                          = Msg("assistant", CallsTo(w, "chat")[1].reply)

\* C9: the pair fast-path is taken only for a pair (i, j) within the bounds of the
\* session's N stored sources; it makes one grounded request, with exactly the i-th and the
\* j-th stored source in that order, and appends one user and one assistant message.  The
\* single-index fast-path too is taken only for an index within bounds.
C9_PairFastPath ==
    \A w \in Workers :
        /\ (Routed(w) /\ worker[w].path = "pair") =>
               /\ PairInBounds(w)
               /\ Len(CallsTo(w, "grounded")) = 1
               /\ CallsTo(w, "grounded")[1].sources
                      = << SOURCES[worker[w].session_id][worker[w].pair[1]],
                           SOURCES[worker[w].session_id][worker[w].pair[2]] >>
               /\ worker[w].pc = "done" =>
                      /\ Cardinality(OwnEntries(w)) = 2
                      /\ SESSIONS[worker[w].session_id][Min(OwnEntries(w))].role = "user"
                      /\ SESSIONS[worker[w].session_id][Max(OwnEntries(w))].role = "assistant"
        /\ (Routed(w) /\ worker[w].path = "index") => IndexInBounds(w)

\* a comparison of two different stored sources has been answered
C9_Witness ==
    \E w \in Workers :
        /\ FollowUpDone(w) /\ worker[w].path = "pair"
        /\ worker[w].pair[1] # worker[w].pair[2]

\* the grounded collaborator returned the sentinel to worker w
GroundedInsufficient(w) ==
    \E k \in DOMAIN worker[w].calls :
        worker[w].calls[k].fn = "grounded" /\ worker[w].calls[k].reply = RAG_FAILURE_CODE

\* C10: on a fresh query, if the grounded collaborator returns the sentinel, the final
\* answer is the general-reasoning output on the raw query, the response's sources are
\* empty and the session created from the answer stores no sources.
C10_SentinelFallback ==
    \A w \in Workers :
        (AskDone(w) /\ GroundedInsufficient(w)) =>
            /\ Len(CallsTo(w, "general")) = 1
            /\ CallsTo(w, "general")[1].query = worker[w].user_msg
            /\ worker[w].reply = CallsTo(w, "general")[1].reply
            /\ worker[w].sources = <<>>
            /\ worker[w].session_id # NullId => SOURCES[worker[w].session_id] = <<>>

\* a fresh query found three results, the grounded collaborator returned the sentinel and
\* a session was created from the general answer
C10_Witness ==
    \E w \in Workers :
        /\ AskDone(w) /\ GroundedInsufficient(w)
        /\ Len(CallsTo(w, "search")[1].sources) = 3
        /\ worker[w].session_id # NullId

\* C11: fresh-query routing.  If the classifier bypasses, neither the search nor the
\* extraction nor the grounded collaborator is called and the answer is the
\* general-reasoning output, with empty sources.  Otherwise the search is called first, and
\* the grounded collaborator is called if and only if the search returned at least one
\* result; with no result the answer comes directly from general reasoning and the sources
\* stay empty.
C11_FreshQueryRouting ==
    \A w \in Workers :
        AskDone(w) =>
            IF is_simple_logical_query(worker[w].user_msg)
            THEN /\ CallsTo(w, "search") = <<>>
                 /\ CallsTo(w, "extract") = <<>>
                 /\ CallsTo(w, "grounded") = <<>>
                 /\ worker[w].calls = <<GeneralCall(worker[w].user_msg, worker[w].reply)>>
                 /\ worker[w].sources = <<>>
            ELSE /\ worker[w].calls[1].fn = "search"
                 /\ worker[w].calls[1].query = worker[w].user_msg
                 /\ Len(CallsTo(w, "search")) = 1
                 /\ Len(CallsTo(w, "grounded")) <= 1
                 /\ Len(CallsTo(w, "grounded")) = 1 <=> Len(worker[w].calls[1].sources) >= 1
                 /\ worker[w].calls[1].sources = <<>> =>
                        /\ worker[w].calls
                               = << SearchCall(worker[w].user_msg, <<>>),
                                    GeneralCall(worker[w].user_msg, worker[w].reply) >>
                        /\ worker[w].sources = <<>>

\* a fresh query that the classifier does not bypass and for which the search found
\* nothing has been answered
C11_Witness ==
    \E w \in Workers :
        /\ AskDone(w)
        /\ ~is_simple_logical_query(worker[w].user_msg)
        /\ CallsTo(w, "search") # <<>>
        /\ CallsTo(w, "search")[1].sources = <<>>
        /\ CallsTo(w, "general") # <<>>

\* a fresh query that the classifier bypasses has been answered
C11_WitnessBypass ==
    \E w \in Workers :
        AskDone(w) /\ is_simple_logical_query(worker[w].user_msg) /\ worker[w].calls # <<>>

\* the fresh query of worker w was answered by the grounded collaborator
AnsweredFromSources(w) ==
    /\ CallsTo(w, "grounded") # <<>>
    /\ CallsTo(w, "grounded")[1].reply # RAG_FAILURE_CODE

\* C12 (as claimed): the sources field returned to the caller of a fresh query is always
\* the raw search results, exactly as the search collaborator returned them.
C12_SourcesAlwaysRaw ==
    \A w \in Workers :
        (AskDone(w) /\ CallsTo(w, "search") # <<>>) =>
            worker[w].sources = CallsTo(w, "search")[1].sources

\* C12 (amended): the sources field returned to the caller of a fresh query is never the
\* enriched list.  When the grounded collaborator gave the answer it is the raw search
\* results (title/url/snippet) exactly as the search collaborator returned them, while the
\* session stores the enriched list, one Source with content per result; the session id is
\* non-null unless the answer is error-tagged.  In every other case (bypass, no result,
\* sentinel) the field is empty, and so is the stored list.
C12_SourcesRawOrEmpty ==
    \A w \in Workers :
        AskDone(w) =>
            /\ \A i \in DOMAIN worker[w].sources :
                   DOMAIN worker[w].sources[i] = {"title", "url", "snippet"}
            /\ IF AnsweredFromSources(w)
               THEN /\ worker[w].sources = CallsTo(w, "search")[1].sources
                    /\ ~IsErrorTagged(worker[w].reply) => worker[w].session_id # NullId
                    /\ worker[w].session_id # NullId =>
                           LET stored == SOURCES[worker[w].session_id]
                           IN  /\ Len(stored) = Len(worker[w].sources)
                               /\ \A i \in DOMAIN stored :
                                      /\ DOMAIN stored[i] = {"title", "url", "snippet", "content"}
                                      /\ stored[i].title = worker[w].sources[i].title
                                      /\ stored[i].url = worker[w].sources[i].url
                                      /\ stored[i].snippet = worker[w].sources[i].snippet
               ELSE /\ worker[w].sources = <<>>
                    /\ worker[w].session_id # NullId => SOURCES[worker[w].session_id] = <<>>

\* the search returned its two mock results, the grounded collaborator answered, and the
\* response carries a session id and the two results, while the session stores fetched
\* content
C12_Witness ==
    \E w \in Workers :
        /\ AskDone(w) /\ AnsweredFromSources(w)
        /\ worker[w].session_id # NullId
        /\ worker[w].sources = MockResults
        /\ SOURCES[worker[w].session_id][1].content # ""

\* the status the request of worker w must be refused with: 0 if it must not be refused
RefusalStatus(w) ==
    LET r == worker[w]
    IN  CASE r.op = "ask" ->
                 IF r.user_msg = "" THEN 400 ELSE 0
          [] r.op = "chat" ->
                 IF r.session_id = NullId \/ r.user_msg = "" THEN 400
                 ELSE IF r.session_id \notin DOMAIN SESSIONS THEN 404 ELSE 0
          [] r.op = "history" ->
                 IF r.session_id = NullId \/ r.session_id \notin DOMAIN SESSIONS THEN 400 ELSE 0
          [] OTHER -> 0

\* a request with an empty required field or an unknown session id is answered with its
\* client error, having called no collaborator and created no session
C13_Refused ==
    \A w \in Workers :
        (worker[w].pc = "done" /\ RefusalStatus(w) # 0) =>
            /\ worker[w].status = RefusalStatus(w)
            /\ worker[w].calls = <<>>
            /\ worker[w].created = None
            /\ worker[w].history = <<>>
            /\ worker[w].answer = ""

\* the step that refuses a request leaves both stores as they are
C13_RefusalKeepsStores ==
    \A w \in Workers :
        (worker[w].pc = "idle" /\ worker'[w].pc = "done" /\ worker'[w].status \in {400, 404})
            => SESSIONS' = SESSIONS /\ SOURCES' = SOURCES

\* C13: a request naming a session id that is not in the store is answered with a client
\* error (404 on POST /api/chat, 400 on GET /api/chat/history) and a request with an empty
\* required field with 400; in each case no collaborator is called, no session is created
\* and every existing session's transcript and source list is unchanged.
C13_ClientErrors == []C13_Refused /\ [][C13_RefusalKeepsStores]_vars

\* a follow-up naming an unknown session id has been refused while a session exists
C13_Witness ==
    \E w \in Workers :
        /\ worker[w].pc = "done" /\ worker[w].op = "chat" /\ worker[w].status = 404
        /\ Len(SESSIONS) >= 1

\* C14 (as claimed): a hard failure of the language-model call during a follow-up is
\* reported to the client as a 500 error response; it is never delivered as a successful
\* answer and never recorded as an assistant message in the transcript.
C14_FailureIs500 ==
    \A w \in Workers :
        (worker[w].pc = "done" /\ worker[w].op = "chat" /\ worker[w].lmFailed) =>
            /\ worker[w].status = 500
            /\ worker[w].answer = ""
            /\ \A i \in OwnEntries(w) :
                   SESSIONS[worker[w].session_id][i].role # "assistant"

\* the follow-up requests that wrote to the transcript of session id
Writers(id) == {origin[id][i] : i \in DOMAIN origin[id]} \ {0}

\* the positions of the transcript of session id written by request rid
EntriesOf(id, rid) == {i \in DOMAIN origin[id] : origin[id][i] = rid}

\* request rid is being served: its user message is appended and its reply is not yet
InFlight(rid) ==
    \E w \in Workers : worker[w].rid = rid /\ worker[w].pc \in {"chat_call", "append_reply"}

\* C15: no message is lost under concurrency.  In every interleaving of the follow-ups on
\* a session, the transcript holds, after the four entries of its creation, the user
\* message and the assistant reply of every follow-up that returned an answer (two entries
\* each, the user message first) and the user message of every follow-up still being
\* served, and nothing else: k answered follow-ups make it exactly 2k entries longer.
C15_NoLostMessage ==
    /\ \A id \in DOMAIN SESSIONS :
        LET answered == {rid \in Writers(id) : ~InFlight(rid)}
            pending == {rid \in Writers(id) : InFlight(rid)}
        IN  /\ DOMAIN origin[id] = DOMAIN SESSIONS[id]
            /\ Len(SESSIONS[id]) = 4 + 2 * Cardinality(answered) + Cardinality(pending)
            /\ \A rid \in answered :
                   /\ Cardinality(EntriesOf(id, rid)) = 2
                   /\ SESSIONS[id][Min(EntriesOf(id, rid))].role = "user"
                   /\ SESSIONS[id][Max(EntriesOf(id, rid))].role = "assistant"
            /\ \A rid \in pending :
                   /\ Cardinality(EntriesOf(id, rid)) = 1
                   /\ SESSIONS[id][Min(EntriesOf(id, rid))].role = "user"
    /\ \A w \in Workers :
        /\ worker[w].pc \in {"chat_call", "append_reply"} =>
               /\ Cardinality(OwnEntries(w)) = 1
               /\ SESSIONS[worker[w].session_id][Min(OwnEntries(w))]
                      = Msg("user", worker[w].user_msg)
        /\ FollowUpDone(w) =>
               /\ Cardinality(OwnEntries(w)) = 2
               /\ SESSIONS[worker[w].session_id][Min(OwnEntries(w))]
                      = Msg("user", worker[w].user_msg)
               /\ SESSIONS[worker[w].session_id][Max(OwnEntries(w))]
                      = Msg("assistant", worker[w].reply)

\* two follow-ups on one session overlapped (both user messages were appended before
\* either reply) and both have been answered
C15_Witness ==
    \E w \in Workers :
        LET id == worker[w].session_id
        IN  /\ FollowUpDone(w)
            /\ Len(SESSIONS[id]) = 8
            /\ SESSIONS[id][5].role = "user" /\ SESSIONS[id][6].role = "user"
            /\ origin[id][5] # origin[id][6]

\* C16 (as claimed): every Source record the system produces (each record stored in a
\* session and each record handed to the grounded collaborator, the record built after a
\* re-fetch in the single-index fast-path included) has at most MAX_CHARS_PER_SOURCE
\* characters of content.
C16_ContentCap ==
    /\ \A id \in DOMAIN SOURCES : \A i \in DOMAIN SOURCES[id] :
           Len(SOURCES[id][i].content) <= MAX_CHARS_PER_SOURCE
    /\ \A w \in Workers : \A k \in DOMAIN worker[w].calls :
           worker[w].calls[k].fn = "grounded" =>
               \A j \in DOMAIN worker[w].calls[k].sources :
                   Len(worker[w].calls[k].sources[j].content) <= MAX_CHARS_PER_SOURCE

\* C17: build_full_sources never fails and preserves shape.  For every list of search
\* results it returns exactly one Source per entry, in the same order, with the entry's
\* title, url (or link) and snippet, "" standing for what the entry lacks; an empty list
\* gives an empty list; an entry that is not a dict, has no url or whose extraction fails
\* gives a record with empty content, and the other entries come out as they do without it.
\* No content is longer than MAX_CHARS_PER_SOURCE.
C17_BuildSourcesShape ==
    unit.fn = "build_full_sources" =>
        /\ Len(unit.out) = Len(unit.results)
        /\ \A i \in DOMAIN unit.results :
            LET r == unit.results[i]
                url == IF "url" \in DOMAIN r /\ r.url # "" THEN r.url
                       ELSE IF "link" \in DOMAIN r THEN r.link ELSE ""
            IN  /\ DOMAIN unit.out[i] = {"title", "url", "snippet", "content"}
                /\ unit.out[i].title = (IF "title" \in DOMAIN r THEN r.title ELSE "")
                /\ unit.out[i].snippet = (IF "snippet" \in DOMAIN r THEN r.snippet ELSE "")
                /\ unit.out[i].url = url
                /\ Len(unit.out[i].content) <= MAX_CHARS_PER_SOURCE
                /\ (r = NotADict \/ url = "" \/ ~unit.pages[url].ok) => unit.out[i].content = ""
                /\ (url # "" /\ unit.pages[url].ok) =>
                       unit.out[i].content
                           = Prefix(_clean_text(unit.pages[url].text), MAX_CHARS_PER_SOURCE)

\* a list of three results was built whose second entry is not a dict: it came out with
\* empty content between two entries with fetched content, the first one cut to the cap
C17_Witness ==
    /\ unit.fn = "build_full_sources"
    /\ Len(unit.out) = 3
    /\ unit.results[2] = NotADict
    /\ unit.out[2].content = ""
    /\ Len(unit.out[1].content) = MAX_CHARS_PER_SOURCE
    /\ unit.out[3].content # ""

\* the text detect_link_index matches its patterns against
Normalized(text) == Strip(Lower(text))

\* the patterns of LINK_PATTERNS (numbered from 1) that match the text
Matching(text) ==
    {k \in 1..NumLinkPatterns : LinkPatternSearch(k, Normalized(text)) # None}

\* those whose captured group is a digit string or an ordinal word of the table
Resolving(text) ==
    {k \in Matching(text) : Recognized(LinkPatternSearch(k, Normalized(text))[1])}

\* C18 (as claimed): detect_link_index tries its four patterns in fixed priority order and
\* the first pattern that matches wins: the result is determined by that pattern's group
\* alone (a digit string parsed directly, an ordinal word mapped through the table) and no
\* lower-priority pattern is consulted.
C18_FirstMatchWins ==
    (unit.fn = "detect_link_index" /\ Matching(unit.text) # {}) =>
        LET g == LinkPatternSearch(Min(Matching(unit.text)), Normalized(unit.text))[1]
        IN  unit.out = IF Recognized(g) THEN GroupIndex(g) ELSE None

\* C18 (amended): detect_link_index tries its four patterns in fixed priority order and
\* the first pattern whose captured group is a digit string or an ordinal word of the
\* table wins: the result is determined by that group alone (a digit string parsed
\* directly, none if it is below 1; an ordinal word mapped through the table).  A pattern
\* that matches with any other word is passed over; if no pattern resolves, the final
\* pass over the ordinal phrases decides.
C18_FirstResolvingMatchWins ==
    unit.fn = "detect_link_index" =>
        unit.out =
            IF Resolving(unit.text) = {} THEN OrdinalFallback(Normalized(unit.text))
            ELSE GroupIndex(LinkPatternSearch(Min(Resolving(unit.text)),
                                              Normalized(unit.text))[1])

\* on a text that two patterns resolve differently, the one of higher priority decided
C18_Witness ==
    /\ unit.fn = "detect_link_index"
    /\ \E k \in Resolving(unit.text) :
           /\ k > Min(Resolving(unit.text))
           /\ GroupIndex(LinkPatternSearch(k, Normalized(unit.text))[1]) # unit.out
    /\ unit.out # None

\* a pattern matched with a word that is no ordinal and a pattern of lower priority
\* gave the index
C18_WitnessPassedOver ==
    /\ unit.fn = "detect_link_index"
    /\ Resolving(unit.text) # {}
    /\ Min(Matching(unit.text)) < Min(Resolving(unit.text))

\* C19 (as claimed): resolver outputs are never below 1.  For every text detect_link_index
\* returns none or an integer >= 1 (none when nothing matches or the index found is below
\* 1) and detect_two_links returns none or a pair of two values >= 1.
C19_IndicesAtLeastOne ==
    /\ unit.fn = "detect_link_index" =>
           /\ unit.out = None \/ (Len(unit.out) = 1 /\ unit.out[1] >= 1)
           /\ (Matching(unit.text) = {} /\ OrdinalFallback(Normalized(unit.text)) = None)
                  => unit.out = None
           /\ (/\ Resolving(unit.text) # {}
               /\ LET g == LinkPatternSearch(Min(Resolving(unit.text)), Normalized(unit.text))[1]
                  IN  IsDigitStr(g) /\ ParseInt(g) # ValueError /\ ParseInt(g) < 1)
                  => unit.out = None
    /\ unit.fn = "detect_two_links" =>
           unit.out = None \/ (Len(unit.out) = 2 /\ unit.out[1] >= 1 /\ unit.out[2] >= 1)

\* detect_two_links found two numbers of which one is 0 and returned none
C19_Witness ==
    /\ unit.fn = "detect_two_links"
    /\ unit.out = None
    /\ \E p \in 1..Len(unit.text) :
           TwoNumbersAt(NormalizeOrdinals(1, Normalized(unit.text)), p) # None

\* detect_link_index found the index 0 and returned none
C19_WitnessIndex ==
    /\ unit.fn = "detect_link_index"
    /\ unit.out = None
    /\ Resolving(unit.text) # {}

\* worker w has answered a history request on an existing session
HistoryDone(w) ==
    worker[w].pc = "done" /\ worker[w].op = "history" /\ worker[w].status = 200

\* the history returned holds one entry per message of the transcript, in transcript
\* order, with sender "user" for role user and "bot" for every other role
C20_HistoryShown ==
    \A w \in Workers :
        HistoryDone(w) =>
            LET h == SESSIONS[worker[w].session_id]
                shown == worker[w].history
            IN  /\ Len(shown) = Len(h)
                /\ Len(shown) >= 4
                /\ \A i \in DOMAIN h :
                       /\ DOMAIN shown[i] = {"sender", "text"}
                       /\ shown[i].sender = (IF h[i].role = "user" THEN "user" ELSE "bot")
                       /\ shown[i].text = Replace(h[i].content, "\n", "<br>")
                       /\ ~Contains(shown[i].text, "\n")
                /\ Writers(worker[w].session_id) = {} =>
                       /\ Len(shown) = 4
                       /\ <<shown[1].sender, shown[2].sender, shown[3].sender, shown[4].sender>>
                              = <<"bot", "bot", "user", "bot">>

\* the step that serves a history request leaves both stores as they are
C20_HistoryKeepsStores ==
    \A w \in Workers :
        (worker[w].pc = "idle" /\ worker'[w].op = "history")
            => SESSIONS' = SESSIONS /\ SOURCES' = SOURCES

\* C20: GET /api/chat/history on an existing session returns exactly one entry per
\* transcript message, in transcript order, with sender "user" for role user and "bot" for
\* every other role (so 4 entries right after creation), and leaves the session store
\* unchanged.
C20_History == []C20_HistoryShown /\ [][C20_HistoryKeepsStores]_vars

\* the history of a session with stored sources was returned right after its creation:
\* four entries, the line breaks of the source block shown as <br>
C20_Witness ==
    \E w \in Workers :
        /\ HistoryDone(w)
        /\ Len(worker[w].history) = 4
        /\ StoredSources(worker[w].session_id) # <<>>
        /\ Contains(worker[w].history[2].text, "<br>")

\* the history of a session was returned after a follow-up had been answered
C20_WitnessFollowUp ==
    \E w \in Workers :
        /\ HistoryDone(w)
        /\ Len(worker[w].history) = 6
        /\ worker[w].history[5].sender = "user"

\* worker w has answered a follow-up on one of the two fast-paths
FastPathDone(w) == FollowUpDone(w) /\ worker[w].path \in {"pair", "index"}

\* the turn of a fast-path: the user message stored is the follow-up text as api_chat holds
\* it, not the question built for the grounded collaborator; the assistant message stored
\* is the reply; the reply is the general-reasoning output on the follow-up text if the
\* grounded collaborator returned the sentinel, the grounded output otherwise
C21_FastPathTurn ==
    \A w \in Workers :
        FastPathDone(w) =>
            LET history == SESSIONS[worker[w].session_id]
                own == OwnEntries(w)
                grounded == CallsTo(w, "grounded")
                general == CallsTo(w, "general")
            IN  /\ Cardinality(own) = 2
                /\ Len(grounded) = 1
                /\ history[Min(own)] = Msg("user", worker[w].user_msg)
                /\ history[Min(own)].content # grounded[1].query
                /\ history[Max(own)] = Msg("assistant", worker[w].reply)
                /\ IF GroundedInsufficient(w)
                   THEN /\ Len(general) = 1
                        /\ general[1].query = worker[w].user_msg
                        /\ worker[w].reply = general[1].reply
                   ELSE /\ general = <<>>
                        /\ worker[w].reply = grounded[1].reply

\* no assistant message written by a fast-path is the sentinel
C21_SentinelNotStored ==
    \A w \in Workers :
        FastPathDone(w) =>
            \A i \in OwnEntries(w) :
                SESSIONS[worker[w].session_id][i] # Msg("assistant", RAG_FAILURE_CODE)

\* C21 (as claimed): on either fast-path, when the grounded collaborator returns the
\* sentinel the reply is the general-reasoning output on the raw follow-up text and the turn
\* is appended; the user message stored is the follow-up text, never the synthesized
\* instruction; and the sentinel is never stored as an assistant message.
C21_FastPathFallback == C21_FastPathTurn /\ C21_SentinelNotStored

\* the ids whose transcript or source list this step changes
Touched ==
    {id \in DOMAIN SESSIONS \cap DOMAIN SESSIONS' :
        \/ SESSIONS'[id] # SESSIONS[id]
        \/ id \in DOMAIN SOURCES /\ SOURCES'[id] # SOURCES[id]}

\* one step of the server: no id leaves a store; a changed session is the session of a
\* follow-up that appends in this step, and only its transcript changes; a step that
\* creates a session (either of its two stores) changes no existing session
C22_Frame ==
    /\ DOMAIN SESSIONS \subseteq DOMAIN SESSIONS'
    /\ DOMAIN SOURCES \subseteq DOMAIN SOURCES'
    /\ \A id \in Touched :
           /\ id \in DOMAIN SOURCES => SOURCES'[id] = SOURCES[id]
           /\ \E w \in Workers :
                  /\ worker[w].op = "chat" /\ worker[w].session_id = id
                  /\ worker[w].pc \in {"append_user", "append_reply"}
                  /\ worker'[w].pc # worker[w].pc
    /\ DOMAIN SESSIONS' # DOMAIN SESSIONS => Touched = {}
    /\ DOMAIN SOURCES' # DOMAIN SOURCES => Touched = {}

\* a request has just completed: its response is ready
RequestCompleted == \E w \in Workers : worker[w].pc = "done"

\* whenever a request has completed, the transcript map and the source map hold the same
\* ids
C22_SameIdsAtCompletion == RequestCompleted => DOMAIN SESSIONS = DOMAIN SOURCES

\* C22 (as claimed): session isolation and persistence, with the transcript map and the
\* source map holding the same set of ids after each request completes.
C22_SameIdsAfterEachRequest == []C22_SameIdsAtCompletion /\ [][C22_Frame]_vars

\* the session whose id is in the transcript map only is being created: the request that
\* creates it is between its two stores
BeingCreated(id) ==
    \E w \in Workers :
        worker[w].op = "ask" /\ worker[w].pc = "store_sources" /\ worker[w].session_id = id

\* the transcript map and the source map hold the same ids, but for the sessions being
\* created
C22_SameIds ==
    /\ DOMAIN SOURCES \subseteq DOMAIN SESSIONS
    /\ \A id \in DOMAIN SESSIONS : id \in DOMAIN SOURCES \/ BeingCreated(id)
    /\ \A w \in Workers :
           (worker[w].pc = "done" /\ worker[w].op = "ask" /\ worker[w].session_id # NullId)
               => worker[w].session_id \in DOMAIN SESSIONS \cap DOMAIN SOURCES

\* C22 (amended): session isolation and persistence.  A follow-up on session s leaves the
\* transcript and the source list of every other session unchanged; creating a session
\* leaves every existing session unchanged; an id that is in a store stays in it; and
\* once the request that creates a session has completed, the session's id is in both
\* maps.  Between the two stores of that request the id is in the transcript map only,
\* whatever other request completes meanwhile.
C22_IsolationAndPersistence == []C22_SameIds /\ [][C22_Frame]_vars

\* a follow-up on the first session has been answered while the second session is being
\* created: the second transcript is stored as it was created, its source list is not yet
C22_Witness ==
    /\ Len(SESSIONS) = 2
    /\ Len(SESSIONS[2]) = 4
    /\ DOMAIN SOURCES = {1}
    /\ \E w \in Workers :
           /\ FollowUpDone(w) /\ worker[w].session_id = 1
           /\ worker[w].rid = 3
           /\ Cardinality(OwnEntries(w)) = 2

\* a transcript of even length >= 4: two system messages, then user and assistant
\* messages in turn
WellFormed(history) ==
    /\ Len(history) >= 4
    /\ Len(history) % 2 = 0
    /\ history[1].role = "system"
    /\ history[2].role = "system"
    /\ \A i \in 3..Len(history) :
           history[i].role = IF i % 2 = 1 THEN "user" ELSE "assistant"

\* no follow-up is between its request and its response
Completed == \A w \in Workers : worker[w].pc \in {"idle", "done"}

\* C23: transcript well-formedness.  After any sequence of fresh queries and follow-ups
\* that do not overlap, every stored transcript has even length >= 4, starts with two system
\* messages, and from the third entry on user and assistant messages alternate: no two
\* user messages in a row, no user message without a reply.
C23_WellFormedTranscripts ==
    Completed => \A id \in DOMAIN SESSIONS : WellFormed(SESSIONS[id])

\* two follow-ups on one session have been answered one after the other, the second on a
\* fast-path; the reply to one of them is the string of a failed language-model call
C23_Witness ==
    \E w \in Workers :
        /\ FollowUpDone(w)
        /\ Len(SESSIONS[worker[w].session_id]) = 8
        /\ \E i \in 5..8 : IsFailedCallString(SESSIONS[worker[w].session_id][i].content)
        /\ worker[w].path # "default"

====
